---- MODULE Spec2Model ----
(***************************************************************************)
(* A model of whisper_dictate.py: the recording session of                 *)
(* WhisperDictation (toggle_recording, its worker thread record(),         *)
(* _process_text, _is_stuck), the evdev hotkey listener                    *)
(* (parse_hotkey_evdev, find_keyboard_devices, run_hotkey_listener) and    *)
(* AudioHealthMonitor (_check_mic, _run).                                  *)
(*                                                                         *)
(* time.time() is modelled in integer milliseconds.  Strings that the      *)
(* program inspects character by character are sequences of one-character  *)
(* strings.                                                                *)
(*                                                                         *)
(* Spec is the recording session with toggle_recording called at any       *)
(* time, TwoCallerSpec the session with two threads calling it once each;  *)
(* ListenerSpec is the hotkey listener with its callback recorded,         *)
(* ListenerFaultSpec the listener with a callback that may raise,          *)
(* ParserSpec its start over many combos, ModifierOnlySpec the listener on *)
(* a lone modifier; MonitorSpec is the audio health monitor.               *)
(***************************************************************************)
EXTENDS Integers, Sequences, FiniteSets, TLC

VARIABLES
    is_recording,         \* WhisperDictation.is_recording
    is_processing,        \* WhisperDictation.is_processing
    processing_deadline,  \* WhisperDictation._processing_deadline (0 = none)
    lock,                 \* holder of WhisperDictation.lock, or "free"
    wpc,                  \* position of each record() worker thread
    wtext,                \* the transcript a worker holds in _process_text
    wresult,              \* how each worker's capture and delivery went
    typed,                \* the calls made to type_text, in order
    last_toggle,          \* what the most recent toggle_recording call did
    now,                  \* time.time(), in milliseconds
    ticks,                \* clock steps taken (bounds the exploration)
    lpc,                  \* run_hotkey_listener: "start", "listening", "exited", "crashed"
    hotkey,               \* config["hotkey"], as its '+'-separated parts
    modifiers,            \* run_hotkey_listener: the modifier sets
    trigger_keys,         \* run_hotkey_listener: the trigger keycodes
    keyboards,            \* run_hotkey_listener: the open devices
    pressed_keys,         \* run_hotkey_listener: keycodes held down
    last_trigger,         \* run_hotkey_listener: time of the last accepted trigger
    present,              \* the pluggable input devices now plugged in
    valid,                \* the open devices whose handle still reads
    calls,                \* the times at which callback() was invoked
    suppressed,           \* the time of the last debounced trigger (0 = none)
    tracing,              \* whether the EV_KEY events read are kept in `events`
    events,               \* the EV_KEY events read so far, when kept
    mic_available,        \* AudioHealthMonitor._mic_available: "None", "True", "False"
    mstop,                \* AudioHealthMonitor._stop is set
    notifications,        \* the summaries passed to notify() by the monitor
    results,              \* what each _check_mic call of the monitor returned
    tpc,                  \* position of each caller of toggle_recording
    tout,                 \* what each caller's last toggle_recording call did
    concurrent            \* two toggle_recording calls were in progress at once

svars == <<is_recording, is_processing, processing_deadline, lock, wpc, wtext,
           wresult, typed, last_toggle>>
cvars == <<now, ticks>>
lvars == <<lpc, hotkey, modifiers, trigger_keys, keyboards, pressed_keys,
           last_trigger, present, valid, calls, suppressed, tracing, events>>
mvars == <<mic_available, mstop, notifications, results>>
tvars == <<tpc, tout, concurrent>>
vars == <<svars, cvars, lvars, mvars, tvars>>

---------------------------------------------------------------------------
(* Bounds of the model *)

MaxWorkers == 3
MaxTicks == 4
MaxListenerTicks == 2
MaxParts == 3
MaxChecks == 4
MaxEvents == 3
StartTime == 1000

(* Program constants *)

PROCESSING_TIMEOUT_MS == 120000
DEBOUNCE_MS == 300
DEVICE_LOST_SLEEP_MS == 500
SELECT_ERROR_SLEEP_MS == 1000

Workers == 1..MaxWorkers
Callers == {"listener"}

\* the listener thread and a second thread calling toggle_recording
TwoCallers == Callers \cup {"other"}

\* Transcripts recorder.text() may return: empty, whitespace only, speech.
Transcripts == { <<>>, <<" ">>, <<"h", "i">> }
NoText == <<"?">>

---------------------------------------------------------------------------
(* Pure helpers *)

IsSpace(c) == c = " "

\* str.strip(): drop leading and trailing whitespace.
RECURSIVE LStrip(_)
LStrip(s) == IF s # <<>> /\ IsSpace(Head(s)) THEN LStrip(Tail(s)) ELSE s

RECURSIVE RStrip(_)
RStrip(s) ==
    IF s # <<>> /\ IsSpace(s[Len(s)]) THEN RStrip(SubSeq(s, 1, Len(s) - 1)) ELSE s

Strip(s) == RStrip(LStrip(s))

\* `text and text.strip()` in _process_text
HasSpeech(text) == text # <<>> /\ Strip(text) # <<>>

\* the argument of type_text: text + " "
TypedArg(text) == text \o <<" ">>

\* the name under which worker thread w holds the lock
Thread(w) == "worker" \o ToString(w)

\* the workers that were spawned and have not finished their last cleanup
InFlight == {w \in Workers : wpc[w] \notin {"unspawned", "done"}}

Spawned == {w \in Workers : wpc[w] # "unspawned"}

---------------------------------------------------------------------------
(* WhisperDictation *)

SessionInit ==
    /\ is_recording = FALSE
    /\ is_processing = FALSE
    /\ processing_deadline = 0
    /\ lock = "free"
    /\ wpc = [w \in Workers |-> "unspawned"]
    /\ wtext = [w \in Workers |-> NoText]
    /\ wresult = [w \in Workers |-> "none"]
    /\ typed = <<>>
    /\ last_toggle = [out |-> "none", others |-> 0]
    /\ tpc = [c \in TwoCallers |-> "out"]
    /\ tout = [c \in TwoCallers |-> "none"]
    /\ concurrent = FALSE
    /\ now = StartTime
    /\ ticks = 0

\* _is_stuck with `>=` for `>`: a reset at the very instant of the deadline
IsStuck_AtDeadline ==
    is_processing /\ processing_deadline > 0 /\ now >= processing_deadline

\* _is_stuck: the condition under which it resets the session
IsStuck ==
    is_processing /\ processing_deadline > 0 /\ now > processing_deadline

\* _is_stuck without `self.is_recording = False`
AfterStuckCheck_KeepsRecording ==
    IF IsStuck
    THEN [rec |-> is_recording, proc |-> FALSE, dl |-> 0]
    ELSE [rec |-> is_recording, proc |-> is_processing, dl |-> processing_deadline]

\* _is_stuck: the session fields after the call
AfterStuckCheck ==
    IF IsStuck
    THEN [rec |-> FALSE, proc |-> FALSE, dl |-> 0]
    ELSE [rec |-> is_recording, proc |-> is_processing, dl |-> processing_deadline]

\* time.time() + 120
NewDeadline == now + PROCESSING_TIMEOUT_MS

\* `with self.lock:` -- a caller of toggle_recording takes the lock
ToggleAcquire(c) ==
    /\ lock = "free"
    /\ lock' = c
    /\ tpc' = [tpc EXCEPT ![c] = "locked"]
    /\ UNCHANGED <<is_recording, is_processing, processing_deadline, wpc,
                   wtext,
                   wresult, typed, last_toggle, tout, concurrent, cvars, lvars,
                   mvars>>

\* toggle_recording starting a recording without `self.is_processing = True`
ToggleBody_StartLeavesProcessing(c) ==
    /\ lock = c
    /\ lock' = "free"
    /\ LET s == AfterStuckCheck
           warned == IsStuck
           n == Cardinality(InFlight)
       IN  IF s.proc
           THEN \* [BUSY] Still processing previous recording...
                /\ is_recording' = s.rec
                /\ is_processing' = s.proc
                /\ processing_deadline' = s.dl
                /\ last_toggle' = [out |-> "BUSY", others |-> n]
                /\ UNCHANGED <<wpc>>
           ELSE IF ~s.rec
           THEN \* start: set the flags and the deadline, spawn record()
                /\ Cardinality(Spawned) < MaxWorkers
                /\ is_recording' = TRUE
                /\ is_processing' = s.proc
                /\ processing_deadline' = NewDeadline
                /\ wpc' = [wpc EXCEPT ![Cardinality(Spawned) + 1] = "call"]
                /\ last_toggle' =
                       [out |-> IF warned THEN "WARN_START" ELSE "START",
                        others |-> n]
           ELSE \* [INFO] Recording will stop when you stop speaking...
                /\ is_recording' = s.rec
                /\ is_processing' = s.proc
                /\ processing_deadline' = s.dl
                /\ last_toggle' = [out |-> "INFO", others |-> n]
                /\ UNCHANGED <<wpc>>
    /\ tpc' = [tpc EXCEPT ![c] = "returned"]
    /\ tout' = [tout EXCEPT ![c] = last_toggle'.out]
    /\ UNCHANGED <<wtext, wresult, typed, concurrent, cvars, lvars, mvars>>

\* toggle_recording, the body under the lock, and the release of the lock
ToggleBody(c) ==
    /\ lock = c
    /\ lock' = "free"
    /\ LET s == AfterStuckCheck
           warned == IsStuck
           n == Cardinality(InFlight)
       IN  IF s.proc
           THEN \* [BUSY] Still processing previous recording...
                /\ is_recording' = s.rec
                /\ is_processing' = s.proc
                /\ processing_deadline' = s.dl
                /\ last_toggle' = [out |-> "BUSY", others |-> n]
                /\ UNCHANGED <<wpc>>
           ELSE IF ~s.rec
           THEN \* start: set the flags and the deadline, spawn record()
                /\ Cardinality(Spawned) < MaxWorkers
                /\ is_recording' = TRUE
                /\ is_processing' = TRUE
                /\ processing_deadline' = NewDeadline
                /\ wpc' = [wpc EXCEPT ![Cardinality(Spawned) + 1] = "call"]
                /\ last_toggle' =
                       [out |-> IF warned THEN "WARN_START" ELSE "START",
                        others |-> n]
           ELSE \* [INFO] Recording will stop when you stop speaking...
                /\ is_recording' = s.rec
                /\ is_processing' = s.proc
                /\ processing_deadline' = s.dl
                /\ last_toggle' = [out |-> "INFO", others |-> n]
                /\ UNCHANGED <<wpc>>
    /\ tpc' = [tpc EXCEPT ![c] = "returned"]
    /\ tout' = [tout EXCEPT ![c] = last_toggle'.out]
    /\ UNCHANGED <<wtext, wresult, typed, concurrent, cvars, lvars, mvars>>

\* a thread calls toggle_recording and comes to `with self.lock:`, once
CallToggle(c) ==
    /\ tpc[c] = "out"
    /\ tpc' = [tpc EXCEPT ![c] = "called"]
    /\ concurrent' =
          (concurrent \/ \E o \in TwoCallers \ {c} : tpc[o] \in {"called", "locked"})
    /\ UNCHANGED <<tout, svars, cvars, lvars, mvars>>

\* the thread that called takes the lock
ConcurrentAcquire(c) ==
    /\ tpc[c] = "called"
    /\ ToggleAcquire(c)

\* record(): recorder.text() returns a transcript
AsrReturn(w, t) ==
    /\ wpc[w] = "call"
    /\ wpc' = [wpc EXCEPT ![w] = "process"]
    /\ wtext' = [wtext EXCEPT ![w] = t]
    /\ UNCHANGED <<is_recording, is_processing, processing_deadline, lock,
                   wresult,
                   typed, last_toggle, cvars, lvars, mvars, tvars>>

\* record(): recorder.text() raises
AsrRaise(w) ==
    /\ wpc[w] = "call"
    /\ wpc' = [wpc EXCEPT ![w] = "except"]
    /\ wresult' = [wresult EXCEPT ![w] = "asr_raise"]
    /\ UNCHANGED <<is_recording, is_processing, processing_deadline, lock,
                   wtext,
                   typed, last_toggle, cvars, lvars, mvars, tvars>>

\* _process_text dropping the transcript of a worker whose session was
\* restarted: a newer worker exists
ProcessText_DropsLate(w, outcome) ==
    /\ wpc[w] = "process"
    /\ IF HasSpeech(wtext[w]) /\ ~\E n \in Workers : n > w /\ wpc[n] # "unspawned"
       THEN /\ typed' = Append(typed, [worker |-> w, text |-> TypedArg(wtext[w])])
            /\ wresult' = [wresult EXCEPT ![w] =
                              IF outcome = "raise" THEN "type_raise" ELSE "speech"]
       ELSE /\ outcome = "ok"
            /\ typed' = typed
            /\ wresult' = [wresult EXCEPT ![w] = "blank"]
    /\ wpc' = [wpc EXCEPT ![w] = "pt_finally"]
    /\ wtext' = [wtext EXCEPT ![w] = NoText]
    /\ UNCHANGED <<is_recording, is_processing, processing_deadline, lock,
                   last_toggle, cvars, lvars, mvars, tvars>>

\* _process_text, the try block: type_text(text + " ") when there is speech;
\* type_text returns (ok) or raises.
ProcessText(w, outcome) ==
    /\ wpc[w] = "process"
    /\ IF HasSpeech(wtext[w])
       THEN /\ typed' = Append(typed, [worker |-> w, text |-> TypedArg(wtext[w])])
            /\ wresult' = [wresult EXCEPT ![w] =
                              IF outcome = "raise" THEN "type_raise" ELSE "speech"]
       ELSE /\ outcome = "ok"
            /\ typed' = typed
            /\ wresult' = [wresult EXCEPT ![w] = "blank"]
    /\ wpc' = [wpc EXCEPT ![w] = "pt_finally"]
    /\ wtext' = [wtext EXCEPT ![w] = NoText]
    /\ UNCHANGED <<is_recording, is_processing, processing_deadline, lock,
                   last_toggle, cvars, lvars, mvars, tvars>>

\* the positions at which a worker waits for `with self.lock:`
LockPoints == {"pt_finally", "except", "finally"}

\* the lock taken around the call of type_text as well
WorkerAcquire_AroundDelivery(w) ==
    /\ wpc[w] \in LockPoints \cup {"process"}
    /\ lock = "free"
    /\ lock' = Thread(w)
    /\ UNCHANGED <<is_recording, is_processing, processing_deadline, wpc,
                   wtext,
                   wresult, typed, last_toggle, cvars, lvars, mvars, tvars>>

\* `with self.lock:` -- a worker takes the lock at one of its cleanup sections
WorkerAcquire(w) ==
    /\ wpc[w] \in LockPoints
    /\ lock = "free"
    /\ lock' = Thread(w)
    /\ UNCHANGED <<is_recording, is_processing, processing_deadline, wpc,
                   wtext,
                   wresult, typed, last_toggle, cvars, lvars, mvars, tvars>>

\* _process_text, the finally block: with self.lock: is_processing = False.
\* An exception of type_text then propagates to record()'s except clause.
ProcessTextFinally(w) ==
    /\ wpc[w] = "pt_finally"
    /\ lock = Thread(w)
    /\ is_processing' = FALSE
    /\ lock' = "free"
    /\ wpc' = [wpc EXCEPT ![w] =
                  IF wresult[w] = "type_raise" THEN "except" ELSE "finally"]
    /\ UNCHANGED <<is_recording, processing_deadline, wtext, wresult, typed,
                   last_toggle, cvars, lvars, mvars, tvars>>

\* record(), except Exception: is_processing = False without the lock
RecordExcept_NoLock(w) ==
    /\ wpc[w] = "except"
    /\ is_processing' = FALSE
    /\ wpc' = [wpc EXCEPT ![w] = "finally"]
    /\ UNCHANGED <<is_recording, processing_deadline, lock, wtext, wresult,
                   typed,
                   last_toggle, cvars, lvars, mvars, tvars>>

\* record(), except Exception: with self.lock: is_processing = False
RecordExcept(w) ==
    /\ wpc[w] = "except"
    /\ lock = Thread(w)
    /\ is_processing' = FALSE
    /\ lock' = "free"
    /\ wpc' = [wpc EXCEPT ![w] = "finally"]
    /\ UNCHANGED <<is_recording, processing_deadline, wtext, wresult, typed,
                   last_toggle, cvars, lvars, mvars, tvars>>

\* record(), finally: with self.lock: is_recording = False; deadline = 0;
\* then play_sound("stop"), which touches no session state.
RecordFinally(w) ==
    /\ wpc[w] = "finally"
    /\ lock = Thread(w)
    /\ is_recording' = FALSE
    /\ processing_deadline' = 0
    /\ lock' = "free"
    /\ wpc' = [wpc EXCEPT ![w] = "done"]
    /\ UNCHANGED <<is_processing, wtext, wresult, typed, last_toggle, cvars,
                   lvars, mvars, tvars>>

\* the clock advances by d milliseconds; at most max such steps are taken
Tick(d, max) ==
    /\ ticks < max
    /\ now' = now + d
    /\ ticks' = ticks + 1

\* Time passes for the session, in steps of half the processing timeout.  The
\* critical sections are a few assignments (and a sound of at most a second),
\* so no step of the clock falls inside one.
SessionTick ==
    /\ lock = "free"
    /\ Tick(PROCESSING_TIMEOUT_MS \div 2, MaxTicks)
    /\ UNCHANGED <<svars, lvars, mvars, tvars>>

---------------------------------------------------------------------------
(* Hotkey parsing: _MODIFIER_NAMES, _KEY_NAMES, parse_hotkey_evdev *)

\* Keycodes are named as in evdev.ecodes; getattr(ecodes, name) is one-to-one.
Ctrl == {"KEY_LEFTCTRL", "KEY_RIGHTCTRL"}
Alt == {"KEY_LEFTALT", "KEY_RIGHTALT"}
Shift == {"KEY_LEFTSHIFT", "KEY_RIGHTSHIFT"}
Meta == {"KEY_LEFTMETA", "KEY_RIGHTMETA"}

ModifierNames ==
    ("ctrl" :> Ctrl) @@ ("<ctrl>" :> Ctrl) @@ ("alt" :> Alt) @@ ("<alt>" :> Alt)
    @@ ("shift" :> Shift) @@ ("<shift>" :> Shift)
    @@ ("super" :> Meta) @@ ("<super>" :> Meta)
    @@ ("cmd" :> Meta) @@ ("<cmd>" :> Meta)

KeyNames ==
    [space |-> "KEY_SPACE", enter |-> "KEY_ENTER", tab |-> "KEY_TAB",
     esc |-> "KEY_ESC", backspace |-> "KEY_BACKSPACE", delete |-> "KEY_DELETE",
     up |-> "KEY_UP", down |-> "KEY_DOWN", left |-> "KEY_LEFT",
     right |-> "KEY_RIGHT", home |-> "KEY_HOME", end |-> "KEY_END",
     pageup |-> "KEY_PAGEUP", pagedown |-> "KEY_PAGEDOWN",
     insert |-> "KEY_INSERT", pause |-> "KEY_PAUSE", capslock |-> "KEY_CAPSLOCK",
     f1 |-> "KEY_F1", f2 |-> "KEY_F2", f3 |-> "KEY_F3", f4 |-> "KEY_F4",
     f5 |-> "KEY_F5", f6 |-> "KEY_F6", f7 |-> "KEY_F7", f8 |-> "KEY_F8",
     f9 |-> "KEY_F9", f10 |-> "KEY_F10", f11 |-> "KEY_F11", f12 |-> "KEY_F12"]

\* One-character parts: f'KEY_{part.upper()}' for a letter, f'KEY_{part}' for
\* a digit.  A letter outside a-z (here "e_acute") is alphabetic but names no
\* attribute of ecodes, so getattr(..., None) gives None.
AlphaKey ==
    [a |-> "KEY_A", d |-> "KEY_D", z |-> "KEY_Z", e_acute |-> "None"]

DigitKey == [x \in {"0", "1", "9"} |-> "KEY_" \o x]

NoTrigger == [tag |-> "none"]

\* the loop body of parse_hotkey_evdev for one part
ParsePart(part, st) ==
    IF part \in DOMAIN ModifierNames
    THEN [st EXCEPT !.modifiers = Append(@, ModifierNames[part])]
    ELSE IF part \in DOMAIN KeyNames
    THEN [st EXCEPT !.trigger = [tag |-> "int", code |-> KeyNames[part]]]
    ELSE IF part \in DOMAIN AlphaKey
    THEN [st EXCEPT !.trigger =
             IF AlphaKey[part] = "None" THEN NoTrigger
             ELSE [tag |-> "int", code |-> AlphaKey[part]]]
    ELSE IF part \in DOMAIN DigitKey
    THEN [st EXCEPT !.trigger = [tag |-> "int", code |-> DigitKey[part]]]
    ELSE st

RECURSIVE ParseParts(_, _)
ParseParts(parts, st) ==
    IF parts = <<>> THEN st
    ELSE ParseParts(Tail(parts), ParsePart(Head(parts), st))

\* `>= 1` for `== 1`: without a trigger the first modifier is promoted
parse_hotkey_evdev_PromotesFirst(parts) ==
    LET st == ParseParts(parts, [modifiers |-> <<>>, trigger |-> NoTrigger])
    IN  IF st.trigger.tag = "none" /\ Len(st.modifiers) >= 1
        THEN [modifiers |-> Tail(st.modifiers),
              trigger |-> [tag |-> "set", keys |-> st.modifiers[1]]]
        ELSE st

\* the lone modifier becomes the trigger and stays a required modifier
parse_hotkey_evdev_KeepsModifier(parts) ==
    LET st == ParseParts(parts, [modifiers |-> <<>>, trigger |-> NoTrigger])
    IN  IF st.trigger.tag = "none" /\ Len(st.modifiers) = 1
        THEN [modifiers |-> st.modifiers,
              trigger |-> [tag |-> "set", keys |-> st.modifiers[1]]]
        ELSE st

\* parse_hotkey_evdev: (modifiers, trigger); a lone modifier becomes the
\* trigger, as the set of its keycodes
parse_hotkey_evdev(parts) ==
    LET st == ParseParts(parts, [modifiers |-> <<>>, trigger |-> NoTrigger])
    IN  IF st.trigger.tag = "none" /\ Len(st.modifiers) = 1
        THEN [modifiers |-> <<>>,
              trigger |-> [tag |-> "set", keys |-> st.modifiers[1]]]
        ELSE st

\* run_hotkey_listener: the trigger as a set of keycodes
TriggerKeys(trigger) ==
    IF trigger.tag = "int" THEN {trigger.code} ELSE trigger.keys

---------------------------------------------------------------------------
(* Devices: find_keyboard_devices *)

\* /dev/input devices: two keyboards that can be plugged and unplugged, a
\* mouse (EV_KEY buttons, no letter keys) and a keyboard the process may not
\* open.
Pluggable == {"kbd1", "kbd2"}
Fixed == {"mouse", "locked_kbd"}

HasLetterKeys(d) == d \in {"kbd1", "kbd2", "locked_kbd"}
PermissionDenied(d) == d = "locked_kbd"

\* find_keyboard_devices, over the devices listed by evdev.list_devices()
find_keyboard_devices(listed) ==
    [devices |-> {d \in listed : ~PermissionDenied(d) /\ HasLetterKeys(d)},
     permission_denied |-> Cardinality({d \in listed : PermissionDenied(d)})]

ListDevices == present \cup Fixed

---------------------------------------------------------------------------
(* run_hotkey_listener *)

\* the combos of the model: the default, a lone modifier, two modifiers and
\* a key, and two modifiers without a key
Hotkeys ==
    { <<"<ctrl>", "space">>, <<"alt">>, <<"ctrl", "alt", "space">>,
      <<"ctrl", "alt">> }

\* the keycodes the keyboards of the model send
EventKeys == {"KEY_LEFTCTRL", "KEY_RIGHTCTRL", "KEY_LEFTALT", "KEY_SPACE"}

\* key up (0), key down (1), key repeat (2)
EventValues == {0, 1, 2}

ListenerInit ==
    /\ lpc = "start"
    /\ hotkey \in Hotkeys
    /\ modifiers = <<>>
    /\ trigger_keys = {}
    /\ keyboards = {}
    /\ pressed_keys = {}
    /\ last_trigger = 0
    /\ present = Pluggable
    /\ valid = {}
    /\ calls = <<>>
    /\ suppressed = 0
    /\ tracing = FALSE
    /\ events = <<>>

\* run_hotkey_listener up to the loop: parse the combo, exit without a
\* trigger, find the keyboards, exit without one
ListenerStart ==
    /\ lpc = "start"
    /\ LET parsed == parse_hotkey_evdev(hotkey)
           found == find_keyboard_devices(ListDevices).devices
       IN  IF parsed.trigger.tag = "none"
           THEN /\ lpc' = "exited"
                /\ UNCHANGED <<modifiers, trigger_keys, keyboards, valid>>
           ELSE /\ modifiers' = parsed.modifiers
                /\ trigger_keys' = TriggerKeys(parsed.trigger)
                /\ keyboards' = found
                /\ valid' = found
                /\ lpc' = IF found = {} THEN "exited" ELSE "listening"
    /\ UNCHANGED <<hotkey, tracing, events, pressed_keys, last_trigger,
                   present, calls, suppressed,
                   cvars, svars, mvars, tvars>>

\* any(...) for the outer all(...): one held modifier set is enough
AllMods_Any(pressed) ==
    \E i \in 1..Len(modifiers) : \E k \in modifiers[i] : k \in pressed

\* all(any(k in pressed_keys for k in mod_set) for mod_set in modifiers)
AllMods(pressed) ==
    \A i \in 1..Len(modifiers) : \E k \in modifiers[i] : k \in pressed

\* `>=` for `>`: a trigger exactly one window after the last is accepted
DebounceOk_Inclusive == now - last_trigger >= DEBOUNCE_MS

\* now - last_trigger > 0.3
DebounceOk == now - last_trigger > DEBOUNCE_MS

\* pressed_keys after an event
\* `if event.value:` for `if event.value == 1:` -- a repeat counts as a down
PressedAfter_RepeatIsDown(code, value) ==
    IF value # 0 THEN pressed_keys \cup {code}
    ELSE pressed_keys \ {code}

PressedAfter(code, value) ==
    IF value = 1 THEN pressed_keys \cup {code}
    ELSE IF value = 0 THEN pressed_keys \ {code}
    ELSE pressed_keys

\* the event is a key-down of a trigger key with every modifier set held
TriggerEdge(code, value) ==
    code \in trigger_keys /\ value = 1 /\ AllMods(PressedAfter(code, value))

\* the event read is appended to `events` when events are kept, of which
\* at most MaxEvents are
Recorded(code, value) ==
    IF tracing
    THEN /\ Len(events) < MaxEvents
         /\ events' = Append(events, [code |-> code, value |-> value])
    ELSE events' = events

\* the loop body for one EV_KEY event read from device d (events of other
\* types are skipped by the loop and change nothing)
KeyEvent(d, code, value) ==
    /\ lpc = "listening"
    /\ d \in keyboards \cap valid
    /\ Recorded(code, value)
    /\ pressed_keys' = PressedAfter(code, value)
    /\ IF TriggerEdge(code, value)
       THEN IF DebounceOk
            THEN /\ last_trigger' = now
                 /\ calls' = Append(calls, now)
                 /\ UNCHANGED suppressed
            ELSE /\ suppressed' = now
                 /\ UNCHANGED <<last_trigger, calls>>
       ELSE UNCHANGED <<last_trigger, calls, suppressed>>
    /\ UNCHANGED <<lpc, hotkey, tracing, modifiers, trigger_keys, keyboards,
                   present, valid,
                   cvars, svars, mvars, tvars>>

\* the exceptions a callback may raise, by the handler that takes them: the
\* inner except (OSError, IOError), the outer except (OSError, IOError,
\* ValueError), or neither
CallbackExceptions == {"OSError", "ValueError", "RuntimeError"}

\* the loop body for a key-down that invokes callback(), and callback()
\* raises: OSError goes to the inner handler (sleep 0.5 s, rebuild), ValueError
\* passes it and goes to the outer handler (sleep 1 s, rebuild), any other
\* exception leaves the while loop and run_hotkey_listener, and main handles
\* KeyboardInterrupt only
CallbackRaises(d, code, exc) ==
    /\ lpc = "listening"
    /\ d \in keyboards \cap valid
    /\ TriggerEdge(code, 1)
    /\ DebounceOk
    /\ Recorded(code, 1)
    /\ pressed_keys' = PressedAfter(code, 1)
    /\ last_trigger' = now
    /\ calls' = Append(calls, now)
    /\ IF exc = "RuntimeError"
       THEN /\ lpc' = "crashed"
            /\ UNCHANGED <<keyboards, valid, cvars>>
       ELSE /\ Tick(IF exc = "OSError" THEN DEVICE_LOST_SLEEP_MS
                                        ELSE SELECT_ERROR_SLEEP_MS,
                    MaxListenerTicks)
            /\ keyboards' = find_keyboard_devices(ListDevices).devices
            /\ valid' = keyboards'
            /\ UNCHANGED lpc
    /\ UNCHANGED <<hotkey, tracing, modifiers, trigger_keys, present,
                   suppressed, svars, mvars, tvars>>

\* dev.read() raises OSError on a device whose handle no longer reads:
\* time.sleep(0.5); keyboards, _ = find_keyboard_devices(evdev, ecodes)
ReadError(d) ==
    /\ lpc = "listening"
    /\ d \in keyboards \ valid
    /\ Tick(DEVICE_LOST_SLEEP_MS, MaxListenerTicks)
    /\ keyboards' = find_keyboard_devices(ListDevices).devices
    /\ valid' = keyboards'
    /\ UNCHANGED <<lpc, hotkey, tracing, events, modifiers, trigger_keys,
                   pressed_keys,
                   last_trigger, present, calls, suppressed, svars, mvars, tvars>>

\* select.select raises on a list holding a dead device:
\* time.sleep(1); keyboards, _ = find_keyboard_devices(evdev, ecodes)
SelectError ==
    /\ lpc = "listening"
    /\ keyboards \ valid # {}
    /\ Tick(SELECT_ERROR_SLEEP_MS, MaxListenerTicks)
    /\ keyboards' = find_keyboard_devices(ListDevices).devices
    /\ valid' = keyboards'
    /\ UNCHANGED <<lpc, hotkey, tracing, events, modifiers, trigger_keys,
                   pressed_keys,
                   last_trigger, present, calls, suppressed, svars, mvars, tvars>>

\* a keyboard is unplugged: its open handle, if any, stops reading
Unplug(d) ==
    /\ d \in present
    /\ present' = present \ {d}
    /\ valid' = valid \ {d}
    /\ UNCHANGED <<lpc, hotkey, tracing, events, modifiers, trigger_keys,
                   keyboards, pressed_keys,
                   last_trigger, calls, suppressed, cvars, svars, mvars, tvars>>

\* a keyboard is plugged in: a new device node, unknown to the open handles
Plug(d) ==
    /\ d \in Pluggable \ present
    /\ present' = present \cup {d}
    /\ UNCHANGED <<lpc, hotkey, tracing, events, modifiers, trigger_keys,
                   keyboards, pressed_keys,
                   last_trigger, valid, calls, suppressed, cvars, svars, mvars, tvars>>

\* time passes for the listener: a millisecond, or a whole debounce window
ListenerTick ==
    /\ \E d \in {1, DEBOUNCE_MS} : Tick(d, MaxListenerTicks)
    /\ UNCHANGED <<lvars, svars, mvars, tvars>>

---------------------------------------------------------------------------
(* AudioHealthMonitor *)

\* _VIRTUAL_NAMES
VirtualNames ==
    { <<"p", "i", "p", "e", "w", "i", "r", "e">>,
      <<"d", "e", "f", "a", "u", "l", "t">>,
      <<"n", "u", "l", "l">>,
      <<"d", "u", "m", "m", "y">>,
      <<"l", "o", "o", "p", "b", "a", "c", "k">> }

\* str.lower(), on the letters the device names of the model use
LowerChar(ch) ==
    CASE ch = "M" -> "m" [] ch = "N" -> "n" [] ch = "U" -> "u" [] ch = "L" -> "l"
      [] ch = "S" -> "s" [] OTHER -> ch

Lower(name) == [i \in 1..Len(name) |-> LowerChar(name[i])]

\* `virt in name_lower`: virt is a substring of name
Contains(name, virt) ==
    \E i \in 1..(Len(name) - Len(virt) + 1) :
        SubSeq(name, i, i + Len(virt) - 1) = virt

\* _is_real_device
is_real_device(name) ==
    ~\E virt \in VirtualNames : Contains(Lower(name), virt)

\* What get_device_info_by_index may give for one index: a microphone, a
\* speaker without input channels, two virtual sources, and a device whose
\* query raises.
AudioDevices ==
    { [raises |-> FALSE, maxInputChannels |-> 1, name |-> <<"M", "i", "c">>],
      [raises |-> FALSE, maxInputChannels |-> 0, name |-> <<"S", "p", "k">>],
      [raises |-> FALSE, maxInputChannels |-> 2, name |-> <<"N", "U", "L", "L">>],
      [raises |-> FALSE, maxInputChannels |-> 2,
       name |-> <<"m", "y", "-", "d", "u", "m", "m", "y">>],
      [raises |-> TRUE, maxInputChannels |-> 1, name |-> <<"M", "i", "c">>] }

\* _check_mic over the listed devices; `fails` when PyAudio itself raises.
\* The loop returns at the first real input device, so the order of the
\* devices does not matter to the result.
check_mic(listed, fails) ==
    IF fails THEN "None"
    ELSE IF \E info \in listed :
               /\ ~info.raises
               /\ info.maxInputChannels > 0
               /\ is_real_device(info.name)
    THEN "True"
    ELSE "False"

MonitorInit ==
    /\ mic_available = "None"
    /\ mstop = FALSE
    /\ notifications = <<>>
    /\ results = <<>>

\* _run without `self._mic_available = available` after a transition
RunCycle_ForgetsTransition(remembered, available) ==
    IF available = "None"
    THEN [mic_available |-> remembered, notes |-> <<>>]
    ELSE IF remembered = "None"
    THEN [mic_available |-> available,
          notes |-> IF available = "False"
                    THEN <<"No Microphone Detected">> ELSE <<>>]
    ELSE IF available # remembered
    THEN [mic_available |-> remembered,
          notes |-> IF available = "True"
                    THEN <<"Microphone Connected">>
                    ELSE <<"Microphone Disconnected">>]
    ELSE [mic_available |-> remembered, notes |-> <<>>]

\* _run, the branches of one cycle: the remembered availability and the
\* notifications sent, given what _check_mic returned
RunCycle(remembered, available) ==
    IF available = "None"
    THEN [mic_available |-> remembered, notes |-> <<>>]
    ELSE IF remembered = "None"
    THEN [mic_available |-> available,
          notes |-> IF available = "False"
                    THEN <<"No Microphone Detected">> ELSE <<>>]
    ELSE IF available # remembered
    THEN [mic_available |-> available,
          notes |-> IF available = "True"
                    THEN <<"Microphone Connected">>
                    ELSE <<"Microphone Disconnected">>]
    ELSE [mic_available |-> remembered, notes |-> <<>>]

\* _run, one cycle of the loop: check, notify, remember
MonitorCheck(listed, fails) ==
    /\ ~mstop
    /\ Len(results) < MaxChecks
    /\ LET available == check_mic(listed, fails)
           cycle == RunCycle(mic_available, available)
       IN  /\ mic_available' = cycle.mic_available
           /\ notifications' = notifications \o cycle.notes
           /\ results' = Append(results, available)
    /\ UNCHANGED <<mstop, svars, cvars, lvars, tvars>>

\* stop(): the loop ends at its next test of _stop
MonitorStop ==
    /\ ~mstop
    /\ mstop' = TRUE
    /\ UNCHANGED <<mic_available, notifications, results, svars, cvars, lvars,
                   tvars>>

---------------------------------------------------------------------------
(* Specifications *)

\* The recording session, with toggle_recording called at any time.
Init ==
    /\ SessionInit
    /\ MonitorInit
    /\ ListenerInit
    /\ hotkey = <<"<ctrl>", "space">>

Next ==
    \/ \E c \in Callers : ToggleAcquire(c)
    \/ \E c \in Callers : ToggleBody(c)
    \/ \E w \in Workers, t \in Transcripts : AsrReturn(w, t)
    \/ \E w \in Workers : AsrRaise(w)
    \/ \E w \in Workers, o \in {"ok", "raise"} : ProcessText(w, o)
    \/ \E w \in Workers : WorkerAcquire(w)
    \/ \E w \in Workers : ProcessTextFinally(w)
    \/ \E w \in Workers : RecordExcept(w)
    \/ \E w \in Workers : RecordFinally(w)
    \/ SessionTick


Spec == Init /\ [][Next]_vars

\* The hotkey listener, with callback() recorded and not executed.
ListenerNext ==
    \/ ListenerStart
    \/ \E d \in Pluggable, k \in EventKeys, v \in EventValues : KeyEvent(d, k, v)
    \/ \E d \in Pluggable : ReadError(d)
    \/ SelectError
    \/ \E d \in Pluggable : Unplug(d)
    \/ \E d \in Pluggable : Plug(d)
    \/ ListenerTick

ListenerStartState ==
    /\ SessionInit
    /\ MonitorInit
    /\ ListenerInit

ListenerSpec == ListenerStartState /\ [][ListenerNext]_vars

\* The hotkey listener on the default combo, with a callback that may raise.
ListenerFaultNext ==
    \/ ListenerNext
    \/ \E d \in Pluggable, k \in EventKeys, e \in CallbackExceptions :
          CallbackRaises(d, k, e)

ListenerFaultSpec == Init /\ [][ListenerFaultNext]_vars

\* The recording session with two threads that each call toggle_recording
\* once, at any time; no time passes.
TwoCallerNext ==
    \/ \E c \in TwoCallers : CallToggle(c)
    \/ \E c \in TwoCallers : ConcurrentAcquire(c)
    \/ \E c \in TwoCallers : ToggleBody(c)
    \/ \E w \in Workers, t \in Transcripts : AsrReturn(w, t)
    \/ \E w \in Workers : AsrRaise(w)
    \/ \E w \in Workers, o \in {"ok", "raise"} : ProcessText(w, o)
    \/ \E w \in Workers : WorkerAcquire(w)
    \/ \E w \in Workers : ProcessTextFinally(w)
    \/ \E w \in Workers : RecordExcept(w)
    \/ \E w \in Workers : RecordFinally(w)

TwoCallerSpec == Init /\ [][TwoCallerNext]_vars

\* The audio health monitor, checking any list of devices at each cycle.
MonitorNext ==
    \/ \E listed \in SUBSET AudioDevices, fails \in BOOLEAN :
          MonitorCheck(listed, fails)
    \/ MonitorStop

MonitorSpec == Init /\ [][MonitorNext]_vars

\* The listener on the default combo with keyboards that stay plugged in,
\* the events read being kept.
KeyStateKeys == {"KEY_LEFTCTRL", "KEY_SPACE"}

KeyStateInit ==
    /\ SessionInit
    /\ MonitorInit
    /\ lpc = "start"
    /\ hotkey = <<"<ctrl>", "space">>
    /\ modifiers = <<>>
    /\ trigger_keys = {}
    /\ keyboards = {}
    /\ pressed_keys = {}
    /\ last_trigger = 0
    /\ present = Pluggable
    /\ valid = {}
    /\ calls = <<>>
    /\ suppressed = 0
    /\ tracing = TRUE
    /\ events = <<>>

KeyStateNext ==
    \/ ListenerStart
    \/ \E d \in Pluggable, k \in KeyStateKeys, v \in EventValues : KeyEvent(d, k, v)
    \/ ListenerTick

KeyStateSpec == KeyStateInit /\ [][KeyStateNext]_vars

\* The start of the listener over every combo of up to MaxParts parts.  The
\* parts are those of hotkey_str.lower().split('+'), stripped: two modifier
\* names, a key name, a letter, a digit, a letter that names no keycode and
\* a word that is in no table.
ParserTokens == {"ctrl", "<alt>", "space", "a", "1", "e_acute", "foo"}

Combos == UNION {[1..n -> ParserTokens] : n \in 1..MaxParts}

ParserInit ==
    /\ SessionInit
    /\ MonitorInit
    /\ lpc = "start"
    /\ hotkey \in Combos
    /\ modifiers = <<>>
    /\ trigger_keys = {}
    /\ keyboards = {}
    /\ pressed_keys = {}
    /\ last_trigger = 0
    /\ present = Pluggable
    /\ valid = {}
    /\ calls = <<>>
    /\ suppressed = 0
    /\ tracing = FALSE
    /\ events = <<>>

ParserNext == ListenerStart

ParserSpec == ParserInit /\ [][ParserNext]_vars

\* The listener on a combo that is one modifier name, with keyboards that
\* send both keys of each modifier and an unrelated key.
ModifierOnlyKeys ==
    {"KEY_LEFTALT", "KEY_RIGHTALT", "KEY_LEFTCTRL", "KEY_RIGHTCTRL", "KEY_SPACE"}

ModifierOnlyInit ==
    /\ ParserInit
    /\ Len(hotkey) = 1
    /\ hotkey[1] \in DOMAIN ModifierNames

ModifierOnlyNext ==
    \/ ListenerStart
    \/ \E d \in Pluggable, k \in ModifierOnlyKeys, v \in {0, 1} : KeyEvent(d, k, v)
    \/ ListenerTick

ModifierOnlySpec == ModifierOnlyInit /\ [][ModifierOnlyNext]_vars


---------------------------------------------------------------------------
(* Properties of the recording session *)

Idle == ~is_recording /\ ~is_processing /\ processing_deadline = 0

\* the calls made to type_text by worker w
TypedBy(w) == {i \in 1..Len(typed) : typed[i].worker = w}

\* C1: whenever is_processing is true a deadline is recorded, so that a
\* toggle made after the deadline is not refused as busy but resets the
\* session; this is to hold after any interleaving of toggles, resets and
\* late worker completions.
C1_ProcessingHasDeadline == is_processing => processing_deadline > 0

\* C2: every spawn of a worker by toggle_recording happens either when no
\* earlier worker is still in flight or in a toggle call that has just
\* performed the deadline force-reset.
C2_OneWorkerInFlight ==
    last_toggle.out = "START" => last_toggle.others = 0

\* C3: a toggle_recording call made while the session is Processing and the
\* deadline has not passed changes none of is_recording, is_processing and
\* the deadline, and spawns no worker.
C3_BusyToggleIsNoOp ==
    [][\A c \in Callers :
          (/\ ToggleBody(c)
           /\ is_processing
           /\ (processing_deadline = 0 \/ now <= processing_deadline))
          => /\ UNCHANGED <<is_recording, is_processing, processing_deadline,
                            wpc>>
             /\ last_toggle'.out = "BUSY"]_vars

\* a toggle was refused as busy at the very instant of the deadline
C3_Witness ==
    /\ last_toggle.out = "BUSY"
    /\ is_processing
    /\ now = processing_deadline

\* C4: a toggle_recording call made while the session is Processing and the
\* clock is past the recorded deadline resets the session and, in the same
\* critical section, starts a new recording: both flags set, a new deadline
\* of now + 120 s, a new worker spawned.
C4_StuckToggleRestarts ==
    [][\A c \in Callers :
          (/\ ToggleBody(c)
           /\ is_processing
           /\ processing_deadline > 0
           /\ now > processing_deadline)
          => /\ is_recording'
             /\ is_processing'
             /\ processing_deadline' = now + PROCESSING_TIMEOUT_MS
             /\ Cardinality(Spawned') = Cardinality(Spawned) + 1
             /\ \E w \in Workers : wpc[w] = "unspawned" /\ wpc'[w] = "call"
             /\ last_toggle'.out = "WARN_START"]_vars

\* a toggle has force-reset the session and started a new worker while the
\* hung one is still in its call
C4_Witness ==
    /\ last_toggle.out = "WARN_START"
    /\ Cardinality({w \in Workers : wpc[w] = "call"}) = 2

\* C8: a worker whose call returned a transcript with speech calls type_text
\* exactly once, with the transcript followed by one space, a blank
\* transcript causes no call, and when the worker completes the session is
\* Idle.
C8_EndToEnd ==
    [][/\ \A w \in Workers, o \in {"ok", "raise"} :
             ProcessText(w, o) =>
                 IF wtext[w] # <<>> /\ \E i \in 1..Len(wtext[w]) : wtext[w][i] # " "
                 THEN /\ typed' = typed \o <<[worker |-> w,
                                              text |-> wtext[w] \o <<" ">>]>>
                      /\ Cardinality(TypedBy(w)') = 1
                 ELSE typed' = typed
       /\ \A w \in Workers :
             (RecordFinally(w) /\ wresult[w] \in {"speech", "blank"}) => Idle'
      ]_vars

\* C9: whenever the lock is free and is_processing is false, no deadline is
\* recorded.
C9_NoDeadlineUnlessProcessing ==
    (lock = "free" /\ ~is_processing) => processing_deadline = 0

\* C10: a worker whose capture failed delivers no text, and on every
\* completion path of a worker (success, exception in capture, exception in
\* delivery) is_processing, is_recording and the deadline are all cleared.
C10_CleanupOnEveryPath ==
    [][\A w \in Workers :
          /\ AsrRaise(w) => typed' = typed
          /\ RecordFinally(w) =>
                /\ wresult[w] = "asr_raise" => TypedBy(w)' = {}
                /\ ~is_processing' /\ ~is_recording' /\ processing_deadline' = 0
      ]_vars

\* worker w is late: a worker spawned after it is in flight
Late(w) == \E n \in Workers : n > w /\ wpc[n] \notin {"unspawned", "done"}

\* C16: the cleanup of a worker that returns after the session was
\* force-reset and restarted leaves is_processing, is_recording and the
\* deadline as the newer toggle set them, while the newer worker is in flight.
C16_LateWorkerLeavesSession ==
    [][\A w \in Workers :
          (/\ Late(w)
           /\ ProcessTextFinally(w) \/ RecordExcept(w) \/ RecordFinally(w))
          => UNCHANGED <<is_recording, is_processing,
                         processing_deadline>>]_vars

\* C17: a toggle, force-reset included, leaves every spawned worker where
\* it is, with the transcript it holds; a worker that holds a transcript can
\* always go on to deliver it; and a worker that leaves _process_text's try
\* block with a transcript that has speech has passed it to type_text,
\* whether or not the session was reset or restarted in the meantime.
C17_ResetAbortsNoDelivery ==
    [][/\ \A c \in Callers :
             ToggleBody(c) =>
                 /\ \A w \in Spawned : wpc'[w] = wpc[w]
                 /\ wtext' = wtext
       /\ \A w \in Workers :
             /\ wpc[w] = "process" => ENABLED ProcessText(w, "ok")
             /\ (/\ wpc[w] = "process"
                 /\ wpc'[w] # "process"
                 /\ \E i \in 1..Len(wtext[w]) : wtext[w][i] # " ")
                => typed' = Append(typed, [worker |-> w,
                                           text |-> wtext[w] \o <<" ">>])
      ]_vars

\* the first worker delivered its transcript after the worker of the
\* restarted session had delivered its own
C17_Witness ==
    /\ Len(typed) = 2
    /\ typed[1].worker = 2
    /\ typed[2].worker = 1

\* C19: the lock is never held by a thread that is in recorder.text() or in
\* type_text; whoever holds the lock can run its critical section to the
\* end and release it, whatever the other threads do (a toggle, as long as
\* the model has a worker left to spawn); and a worker that has come to a
\* cleanup section takes the lock as soon as it is free.  So a worker that
\* hangs in its call blocks no toggle, and a worker that returns completes
\* its cleanup.
C19_NoDeadlock ==
    /\ \A w \in Workers :
          /\ lock = Thread(w) =>
                /\ wpc[w] \in {"pt_finally", "except", "finally"}
                /\ \/ ENABLED ProcessTextFinally(w)
                   \/ ENABLED RecordExcept(w)
                   \/ ENABLED RecordFinally(w)
          /\ (wpc[w] \in {"pt_finally", "except", "finally"} /\ lock = "free")
                => ENABLED WorkerAcquire(w)
    /\ \A c \in Callers :
          /\ (lock = c /\ Cardinality(Spawned) < MaxWorkers) => ENABLED ToggleBody(c)
          /\ lock = "free" => ENABLED ToggleAcquire(c)
    /\ lock \in {"free"} \cup Callers \cup {Thread(w) : w \in Workers}

\* a toggle holds the lock while the first worker has been in its call
\* since before the deadline passed
C19_Witness ==
    /\ lock \in Callers
    /\ wpc[1] = "call"
    /\ processing_deadline > 0
    /\ now > processing_deadline

\* C20: a step that changes is_recording, is_processing or the deadline is
\* taken by the thread that holds the lock: a caller of toggle_recording
\* (the stuck check included), or a worker in one of its cleanup sections.
C20_WritesUnderLock ==
    [][<<is_recording, is_processing, processing_deadline>>'
           # <<is_recording, is_processing, processing_deadline>>
       => \/ lock \in Callers /\ tpc[lock] = "locked" /\ tpc'[lock] = "returned"
          \/ \E w \in Workers :
                /\ lock = "worker" \o ToString(w)
                /\ wpc[w] \in {"pt_finally", "except", "finally"}
                /\ wpc'[w] # wpc[w]
      ]_vars

\* a worker has gone through all three cleanup sections, after a toggle
\* that reset a stuck session
C20_Witness ==
    /\ \E w \in Workers : wpc[w] = "done" /\ wresult[w] = "type_raise"
    /\ last_toggle.out = "WARN_START"
    /\ ~is_recording /\ ~is_processing /\ processing_deadline = 0

\* both threads have returned from calls that were in progress together
BothReturned ==
    /\ concurrent
    /\ \A c \in TwoCallers : tpc[c] = "returned"

\* C15: of two toggle_recording calls that run concurrently while the
\* session is Idle, exactly one spawns a worker and the other finds the
\* session busy, whatever the interleaving of the calls and the worker.
C15_ExactlyOneSpawns ==
    BothReturned =>
        /\ Cardinality(Spawned) = 1
        /\ \E c1, c2 \in TwoCallers : tout[c1] = "START" /\ tout[c2] = "BUSY"

\* C15, amended: the two calls are serialised by the lock.  The first to
\* take it finds the session Idle and spawns a worker; the second decides
\* on the state it finds: it is refused as busy and spawns nothing as long
\* as the worker has run no cleanup, and it starts a recording of its own
\* only after the worker has finished.
C15_TogglesSerialised ==
    [][\A c \in TwoCallers :
          (ToggleBody(c) /\ concurrent) =>
             IF \A o \in TwoCallers \ {c} : tpc[o] # "returned"
             THEN /\ tout'[c] = "START"
                  /\ Spawned = {} /\ Spawned' = {1}
             ELSE /\ (\/ wpc[1] \in {"call", "process", "pt_finally"}
                      \/ wpc[1] = "except" /\ wresult[1] = "asr_raise")
                     => (tout'[c] = "BUSY" /\ wpc' = wpc)
                  /\ tout'[c] = "START" => (wpc[1] = "done" /\ Spawned' = {1, 2})
                  /\ tout'[c] # "START" => wpc' = wpc
      ]_vars

\* one of two concurrent calls started the recording and the other was
\* refused while the worker is still in its call
C15_Witness ==
    /\ BothReturned
    /\ \E c1, c2 \in TwoCallers : tout[c1] = "START" /\ tout[c2] = "BUSY"
    /\ wpc[1] = "call"

---------------------------------------------------------------------------
(* Properties of the hotkey listener *)

\* every modifier set has a member in the set of pressed keys
EveryModifierHeld(pressed) ==
    \A i \in 1..Len(modifiers) : modifiers[i] \cap pressed # {}

\* C5: callback() is invoked on an event if and only if the event is a
\* key-down of a trigger key and, the event counted, every modifier set has
\* a member in pressed_keys and the debounce window has passed; it is then
\* invoked once.
C5_FiresIffTriggerEdge ==
    [][/\ (calls' # calls) <=>
             /\ EveryModifierHeld(pressed_keys')
             /\ now - last_trigger > DEBOUNCE_MS
             /\ \E k \in trigger_keys, d \in Pluggable : KeyEvent(d, k, 1)
       /\ (calls' # calls) => calls' = Append(calls, now)
      ]_vars

\* with two modifier sets required, the callback has fired once
C5_Witness ==
    /\ Len(modifiers) = 2
    /\ Len(calls) = 1
    /\ trigger_keys \cap pressed_keys # {}

\* C6: a trigger edge invokes the callback if and only if more than 300 ms
\* have passed since the last invocation: edges 300 ms apart give one
\* invocation, edges 301 ms apart give two, and a suppressed edge does not
\* restart the window.
C6_Debounce ==
    [][(/\ EveryModifierHeld(pressed_keys')
        /\ \E k \in trigger_keys, d \in Pluggable : KeyEvent(d, k, 1))
          => IF calls = <<>> \/ now - calls[Len(calls)] > DEBOUNCE_MS
             THEN calls' = Append(calls, now)
             ELSE calls' = calls
      ]_vars

\* an edge 300 ms after an accepted one was suppressed, and the edge 1 ms
\* later was accepted
C6_Witness ==
    /\ Len(calls) = 2
    /\ calls[2] - calls[1] = DEBOUNCE_MS + 1
    /\ suppressed = calls[1] + DEBOUNCE_MS

\* C7: when reading a device raises an I/O error, the device list is rebuilt
\* to hold the keyboards still present and pressed_keys is reset to empty.
C7_DeviceLossClearsPressedKeys ==
    [][\A d \in Pluggable :
          ReadError(d) => (keyboards' = present /\ pressed_keys' = {})]_vars

\* C18: when the listener is left without a device after a rebuild (it
\* starts with one at least) and a keyboard is plugged in, the loop has a
\* step that runs find_keyboard_devices again (time permitting), so that the
\* listener does not stay without a device that is present.
C18_RediscoveryOnWakeUp ==
    (/\ lpc = "listening"
     /\ ticks < MaxListenerTicks
     /\ keyboards = {}
     /\ present # {})
    => \/ ENABLED SelectError
       \/ \E d \in Pluggable : ENABLED ReadError(d)

\* the keycodes whose latest key-down or key-up event in evs is a key-down
DownLast(evs) ==
    {k \in {evs[i].code : i \in 1..Len(evs)} :
        LET downup == {i \in 1..Len(evs) : evs[i].code = k /\ evs[i].value \in {0, 1}}
        IN  /\ downup # {}
            /\ evs[CHOOSE i \in downup : \A j \in downup : j <= i].value = 1}

\* C22: an event whose value is neither 1 nor 0 (a key repeat) leaves
\* pressed_keys as it is and invokes no callback, so a hotkey held down
\* triggers once; and after any sequence of events, no device being lost,
\* pressed_keys is the set of keycodes whose latest key-down or key-up
\* event was a key-down.
C22_RepeatIgnored ==
    [][/\ pressed_keys' = DownLast(events')
       /\ (/\ events' # events
           /\ events'[Len(events')].value \notin {0, 1})
          => /\ pressed_keys' = pressed_keys
             /\ calls' = calls
             /\ last_trigger' = last_trigger
      ]_vars

\* the hotkey was pressed and invoked the callback once; its trigger key
\* repeated after the debounce window, without a second invocation
C22_Witness ==
    /\ events = << [code |-> "KEY_LEFTCTRL", value |-> 1],
                   [code |-> "KEY_SPACE", value |-> 1],
                   [code |-> "KEY_SPACE", value |-> 2] >>
    /\ Len(calls) = 1
    /\ now - last_trigger > DEBOUNCE_MS
    /\ pressed_keys = {"KEY_LEFTCTRL", "KEY_SPACE"}

---------------------------------------------------------------------------
(* Properties of hotkey parsing *)

\* a part that is a modifier name, a key name, or a character with a keycode
Resolvable(part) ==
    \/ part \in DOMAIN ModifierNames
    \/ part \in DOMAIN KeyNames
    \/ part \in {"a", "d", "z"}
    \/ part \in {"0", "1", "9"}

\* C11: a combo containing a part that is neither a recognised modifier nor
\* a resolvable key name or character never yields a usable hotkey: the
\* listener does not get past its startup check with it.
C11_UnresolvablePartFails ==
    (\E i \in 1..Len(hotkey) : ~Resolvable(hotkey[i])) => lpc # "listening"

\* the positions of the combo that hold a modifier name
ModifierParts == {i \in 1..Len(hotkey) : hotkey[i] \in DOMAIN ModifierNames}

\* the positions of the combo that hold a key name or character with a keycode
KeyParts ==
    {i \in 1..Len(hotkey) :
        hotkey[i] \notin DOMAIN ModifierNames /\ Resolvable(hotkey[i])}

\* C21: with a combo of two or more modifier names and no part that
\* resolves to a trigger key, in any order and with any unresolvable parts
\* between them, the listener has no trigger (no modifier is promoted) and
\* exits at its startup check instead of listening.
C21_ModifiersWithoutTriggerExit ==
    (/\ lpc # "start"
     /\ Cardinality(ModifierParts) >= 2
     /\ KeyParts = {})
    => /\ lpc = "exited"
       /\ trigger_keys = {}
       /\ modifiers = <<>>

\* the listener has exited on two modifier names with an unknown word
\* between them
C21_Witness ==
    /\ lpc = "exited"
    /\ hotkey = <<"<alt>", "foo", "ctrl">>

\* C12: a combo of a single modifier name is parsed to an empty modifier
\* list with the left and right keycodes of that modifier as the trigger,
\* and a key-down of either of the two invokes the callback whatever other
\* keys are held (the debounce window having passed).
C12_ModifierOnly ==
    [][/\ lpc' = "listening" =>
             /\ modifiers' = <<>>
             /\ trigger_keys' = ModifierNames[hotkey[1]]
             /\ Cardinality(trigger_keys') = 2
       /\ \A k \in ModifierNames[hotkey[1]] :
             (/\ now - last_trigger > DEBOUNCE_MS
              /\ \E d \in Pluggable : KeyEvent(d, k, 1))
             => calls' = Append(calls, now)
      ]_vars

\* the callback has fired on the left key and on the right key, with the
\* unrelated key held
C12_Witness ==
    /\ Len(calls) = 2
    /\ trigger_keys \subseteq pressed_keys
    /\ "KEY_SPACE" \in pressed_keys

\* C13: no exception raised by a device read or by the callback ends the
\* listener loop: once listening, run_hotkey_listener keeps listening.
C13_LoopSurvivesExceptions ==
    [][lpc = "listening" => lpc' = "listening"]_vars

---------------------------------------------------------------------------
(* Properties of the audio health monitor *)

\* the result of the latest check that did not fail, "None" without one
LastKnown(rs) ==
    LET known == {i \in 1..Len(rs) : rs[i] # "None"}
    IN  IF known = {} THEN "None"
        ELSE rs[CHOOSE i \in known : \A j \in known : j <= i]

\* C14: a cycle of the monitor sends one notification when its check
\* succeeds with a result that differs from that of the latest successful
\* check, or is the first successful check and finds no microphone, and
\* sends none otherwise; a failed check leaves the remembered availability
\* as it was, a successful one stores its result; nothing else notifies.
C14_NotifyOnTransitions ==
    [][/\ results' # results =>
             LET r == results'[Len(results')]
                 prev == LastKnown(results)
                 emits == /\ r # "None"
                          /\ IF prev = "None" THEN r = "False" ELSE r # prev
             IN  /\ Len(notifications') = Len(notifications) + (IF emits THEN 1 ELSE 0)
                 /\ SubSeq(notifications', 1, Len(notifications)) = notifications
                 /\ mic_available' = IF r = "None" THEN mic_available ELSE r
       /\ notifications' # notifications => results' # results
      ]_vars

\* no microphone at the first check, a failed check, then a microphone
\* found and found again: two notifications
C14_Witness ==
    /\ results = <<"False", "None", "True", "True">>
    /\ notifications = <<"No Microphone Detected", "Microphone Connected">>
    /\ mic_available = "True"

====
